---------------------------- MODULE Spec2Model ----------------------------
(***************************************************************************)
(* Model of exchange_rate_update.py: the incremental update of a remote    *)
(* spreadsheet (Feishu) with the settlement exchange rates fetched from    *)
(* the data provider (akshare).                                            *)
(*                                                                         *)
(* One behaviour is one execution of the process: __main__ calls           *)
(* incremental_update() once and exits with its result.  The remote table  *)
(* outlives the process; what it holds when the process starts is an input.*)
(*                                                                         *)
(* Values.  A cell is a record [t, v]: t is the Python type of the value   *)
(* (or, for a str, which text it is) and v an integer naming the value.    *)
(*    [t |-> "date",      v |-> n]   datetime.date, the n-th calendar day  *)
(*    [t |-> "float",     v |-> n]   a rate figure                         *)
(*    [t |-> "nan",       v |-> 0]   float('nan')                          *)
(*    [t |-> "null",      v |-> 0]   None (JSON null)                      *)
(*    [t |-> "text_iso",  v |-> n]   the str 'YYYY-MM-DD' of day n         *)
(*    [t |-> "text_dec",  v |-> n]   the str of the float n                *)
(*    [t |-> "text_nan",  v |-> 0]   the str 'nan'                         *)
(*    [t |-> "text_None", v |-> 0]   the str 'None'                        *)
(*    [t |-> "text_empty",v |-> 0]   the str ''                            *)
(*    [t |-> "text_ts",   v |-> k]   the str of the clock reading k        *)
(*    [t |-> "text_name", v |-> k]   a header text                         *)
(* A DataFrame is a record [cols, rows]: the column names and the rows,    *)
(* each row a sequence of cells as long as cols.                           *)
(***************************************************************************)
EXTENDS Integers, Sequences, FiniteSets, TLC

\* ------------------------------------------------------------------ bounds
\* Calendar days the provider and the table may hold: 1 .. MaxDate.
MaxDate == 2
\* Rows in one provider response.
MaxFetch == 2

\* ------------------------------------------------------- program constants
\* ord('A'), the base of the column letter (line 330).
OrdA == 65
\* Columns a single letter can address (line 330).
MaxLetterCols == 26

\* ------------------------------------------------------------------ values
Cell(t, v) == [t |-> t, v |-> v]

NaN == Cell("nan", 0)

\* Column names.  The names stand for
\*   "ShiYongRiQi"    = '适用日期'  (the provider's date column)
\*   "JiaoYiRi"       = '交易日'    (a date column whose name has no '日期')
\*   "rate"           = '买入结算汇兑比率'
\*   "update_date"    = 'update_date'
\*   "GengXinShiJian" = '更新时间'  (the processing timestamp column)
UpdateTimeCol == "GengXinShiJian"

\* '日期' in col or 'date' in col.lower()   (line 170)
IsDateName(col) == col \in {"ShiYongRiQi", "update_date"}

\* pd.DataFrame()
EmptyDF == [cols |-> <<>>, rows |-> <<>>]

\* df.empty: no rows or no columns.
IsEmpty(df) == df.rows = <<>> \/ df.cols = <<>>

\* str(value) / Series.astype(str)
Str(c) ==
    CASE c.t = "date"  -> Cell("text_iso", c.v)
      [] c.t = "float" -> Cell("text_dec", c.v)
      [] c.t = "nan"   -> Cell("text_nan", 0)
      [] c.t = "null"  -> Cell("text_None", 0)
      [] OTHER         -> c

\* pd.isna(value)
IsNa(c) == c.t \in {"nan", "null"}

Range(s) == {s[i] : i \in 1..Len(s)}

\* The processing timestamp: datetime.now().strftime("%Y-%m-%d %H:%M:%S").
CurrentTime == Cell("text_ts", 1)

\* ---------------------------------------------------------- the provider
\* What ak.stock_sgt_settlement_exchange_rate_sse() may hand back.  The schema
\* is the provider's; the first column is the date.
Schemas ==
    { <<"ShiYongRiQi", "rate">>,
      <<"JiaoYiRi", "update_date">>,
      <<"day", "rate">>,
      <<"ShiYongRiQi", UpdateTimeCol>> }

Dates == {Cell("date", d) : d \in 1..MaxDate}

OtherCells(col) ==
    CASE col = "rate"        -> {Cell("float", 1), NaN}
      [] col = "update_date" -> {Cell("date", 1), Cell("date", MaxDate)}
      [] col = UpdateTimeCol -> {Cell("text_ts", 0)}
      [] OTHER               -> {NaN}

\* The first column holds datetime.date values.
RowsOf(cols) == {<<a, b>> : a \in Dates, b \in OtherCells(cols[2])}

\* A response where a date was left unparsed holds the str in its place.
UnparsedRows == {<<a, Cell("float", 1)>> : a \in Dates \cup {Cell("text_iso", 1)}}

SeqsUpTo(S, n) == UNION {[1..k -> S] : k \in 0..n}

Datasets ==
    UNION {{[cols |-> cols, rows |-> r] : r \in SeqsUpTo(RowsOf(cols), MaxFetch)} :
              cols \in Schemas}
      \cup {[cols |-> <<"ShiYongRiQi", "rate">>, rows |-> r] :
              r \in SeqsUpTo(UnparsedRows, MaxFetch)}

\* A call of the provider: it raises, returns None, or returns a DataFrame.
ProviderResponses ==
    {[kind |-> k, df |-> EmptyDF] : k \in {"raise", "none"}}
      \cup {[kind |-> "df", df |-> d] : d \in Datasets}

\* get_settlement_exchange_rate
GetSettlementExchangeRate(resp) ==
    IF resp.kind = "raise" THEN EmptyDF
    ELSE IF resp.kind # "none" /\ ~IsEmpty(resp.df) THEN resp.df
    ELSE EmptyDF

\* ------------------------------------------------------- prepare_new_data
\* df['更新时间'] = current_time, unless the column is there already.
AddUpdateTime(df, now) ==
    IF UpdateTimeCol \in Range(df.cols) THEN df
    ELSE [cols |-> Append(df.cols, UpdateTimeCol),
          rows |-> [i \in 1..Len(df.rows) |-> Append(df.rows[i], now)]]

\* sort_values compares the values of the first column: values of one type
\* compare, a datetime.date and a str do not (TypeError).
Sortable(rows) == \A i, j \in 1..Len(rows) : rows[i][1].t = rows[j][1].t

\* The orders sort_values(ascending=False) may produce.  The default kind,
\* quicksort, is not stable: rows with equal keys may come out in any order.
DescendingOrders(rows) ==
    LET n == Len(rows)
    IN  {p \in [1..n -> 1..n] :
            /\ \A i, j \in 1..n : i # j => p[i] # p[j]
            /\ \A i \in 1..n : i < n => rows[p[i]][1].v >= rows[p[i+1]][1].v}

\* The rows whose first-column value no earlier row has.
RECURSIVE FirstOfEachDate(_, _)
FirstOfEachDate(rows, seen) ==
    IF rows = <<>> THEN <<>>
    ELSE (IF Head(rows)[1] \in seen THEN <<>> ELSE <<Head(rows)>>)
            \o FirstOfEachDate(Tail(rows), seen \cup {Head(rows)[1]})

\* A preparation that keeps one row for each date.
PrepareNewDataOnePerDate(df, now) ==
    IF IsEmpty(df) THEN {EmptyDF}
    ELSE LET d == AddUpdateTime(df, now)
         IN  IF ~Sortable(d.rows) THEN {EmptyDF}
             ELSE {[cols |-> d.cols,
                    rows |-> FirstOfEachDate([i \in 1..Len(d.rows) |-> d.rows[p[i]]], {})] :
                        p \in DescendingOrders(d.rows)}

\* prepare_new_data: the set of its possible results.
PrepareNewData(df, now) ==
    IF IsEmpty(df) THEN {EmptyDF}
    ELSE LET d == AddUpdateTime(df, now)
         IN  IF ~Sortable(d.rows) THEN {EmptyDF}
             ELSE {[cols |-> d.cols,
                    rows |-> [i \in 1..Len(d.rows) |-> d.rows[p[i]]]] :
                        p \in DescendingOrders(d.rows)}

\* ------------------------------------------------------ identify_new_data
\* existing_dates: str(row[0]) of every non-empty row, in order.
RECURSIVE ExistingDates(_)
ExistingDates(existing_data) ==
    IF existing_data = <<>> THEN <<>>
    ELSE LET row == Head(existing_data)
         IN  (IF row # <<>> THEN <<Str(row[1])>> ELSE <<>>)
                \o ExistingDates(Tail(existing_data))

\* The first column whose name says it is a date, else the first column.
DateColumn(cols) ==
    LET named == {i \in 1..Len(cols) : IsDateName(cols[i])}
    IN  IF named # {} THEN CHOOSE i \in named : \A j \in named : i <= j
        ELSE 1

\* A scan that stops at the first date that is there already.
RECURSIVE NewDateIndicesUntilKnown(_, _, _)
NewDateIndicesUntilKnown(new_dates, existing_dates, i) ==
    IF i > Len(new_dates) \/ Str(new_dates[i]) \in Range(existing_dates) THEN <<>>
    ELSE <<i>> \o NewDateIndicesUntilKnown(new_dates, existing_dates, i + 1)

\* new_date_indices, from position i on.
RECURSIVE NewDateIndices(_, _, _)
NewDateIndices(new_dates, existing_dates, i) ==
    IF i > Len(new_dates) THEN <<>>
    ELSE (IF Str(new_dates[i]) \notin Range(existing_dates) THEN <<i>> ELSE <<>>)
            \o NewDateIndices(new_dates, existing_dates, i + 1)

\* df.iloc[indices]
ILoc(df, indices) ==
    [cols |-> df.cols, rows |-> [k \in 1..Len(indices) |-> df.rows[indices[k]]]]

IdentifyNewData(df, existing_data, existing_headers) ==
    IF IsEmpty(df) THEN EmptyDF
    ELSE IF existing_data = <<>> THEN df
    ELSE LET existing_dates == ExistingDates(existing_data)
             date_column == DateColumn(df.cols)
             new_dates == [i \in 1..Len(df.rows) |-> Str(df.rows[i][date_column])]
             new_date_indices == NewDateIndices(new_dates, existing_dates, 1)
         IN  IF new_date_indices # <<>> THEN ILoc(df, new_date_indices)
             ELSE EmptyDF

\* ---------------------------------------------------- prepare_update_data
\* A cell formatted with no thought for missing values.
FormatCellKeepsNaN(value) == Str(value)

\* One cell of the request: "" for a missing value, str(value) otherwise.
FormatCell(value) == IF IsNa(value) THEN Cell("text_empty", 0) ELSE Str(value)

PrepareUpdateData(new_data_df, existing_headers, now) ==
    IF IsEmpty(new_data_df) THEN <<>>
    ELSE LET d == AddUpdateTime(new_data_df, now)
         IN  [i \in 1..Len(d.rows) |->
                [j \in 1..Len(d.rows[i]) |-> FormatCell(d.rows[i][j])]]

\* -------------------------------------------------------- the remote table
HeaderRow == <<Cell("text_name", 1), Cell("text_name", 2), Cell("text_name", 3)>>

\* A row an earlier run wrote for day d.
StoredRow(d) == <<Cell("text_iso", d), Cell("text_dec", 1), Cell("text_ts", 0)>>

\* A row of the sheet with nothing in it.
BlankRow == <<>>

\* What one earlier run wrote: rows for some of the days, the latest first.
RECURSIVE Batch(_, _)
Batch(days, d) ==
    IF d = 0 THEN <<>>
    ELSE (IF d \in days THEN <<StoredRow(d)>> ELSE <<>>) \o Batch(days, d - 1)

\* The sheet when the process starts.  Above the rows there is a header, or
\* nothing (an append to an empty sheet writes rows and no header), or a blank
\* row (update_to_feishu leaves row 1 of an empty sheet blank), or a header and
\* a blank row.  The sheet's values end at its last populated row.
InitTables ==
    {h \o Batch(days, MaxDate) :
        h \in {<<>>, <<HeaderRow>>, <<BlankRow>>, <<HeaderRow, BlankRow>>},
        days \in SUBSET (1..MaxDate)}
      \ {<<BlankRow>>, <<HeaderRow, BlankRow>>}

\* read_existing_feishu_data, given how the GET ended and the sheet's values.
ReadExistingFeishuData(outcome, values) ==
    IF outcome = "ok"
    THEN IF values = <<>> \/ Len(values) <= 1
         THEN [data |-> <<>>, headers |-> <<>>]
         ELSE [data |-> Tail(values), headers |-> values[1]]
    ELSE [data |-> <<>>, headers |-> <<>>]

\* values_append: the rows go after the last populated row.
AppendValues(values, rows) == values \o rows

\* A range that starts on the last row instead of after it.
UpdateRangeFromLastRow(values, feishu_data) ==
    LET current_row_count == IF values # <<>> THEN Len(values) ELSE 1
        start_row == current_row_count
        end_row == start_row + Len(feishu_data) - 1
        col_count == IF feishu_data # <<>> THEN Len(feishu_data[1]) ELSE 1
    IN  [start_row |-> start_row, end_row |-> end_row,
         end_col |-> OrdA + col_count - 1]

\* The range update_to_feishu computes from the values it read.
UpdateRange(values, feishu_data) ==
    LET current_row_count == IF values # <<>> THEN Len(values) ELSE 1
        start_row == current_row_count + 1
        end_row == start_row + Len(feishu_data) - 1
        col_count == IF feishu_data # <<>> THEN Len(feishu_data[1]) ELSE 1
        end_col == IF col_count <= MaxLetterCols THEN OrdA + col_count - 1
                   ELSE OrdA + MaxLetterCols - 1
    IN  [start_row |-> start_row, end_row |-> end_row, end_col |-> end_col]

\* PUT values: rows land on start_row .. end_row; rows skipped stay blank.
PutValues(values, range, rows) ==
    LET n == IF range.end_row > Len(values) THEN range.end_row ELSE Len(values)
    IN  [i \in 1..n |->
            IF i >= range.start_row /\ i <= range.end_row
            THEN rows[i - range.start_row + 1]
            ELSE IF i <= Len(values) THEN values[i] ELSE BlankRow]

\* ------------------------------------------------------------------- state
VARIABLES
    config,           \* APP_ID, APP_SECRET, TABLE_TOKEN, SHEET_ID: TRUE = set, non-empty
    table,            \* the remote sheet's values
    pc,               \* where incremental_update / __main__ is
    token,            \* "none" or "token"
    existing_data,    \* incremental_update's locals
    existing_headers,
    df,
    prepared_df,
    new_data_df,
    feishu_data,
    range,            \* update_to_feishu's start_row, end_row, end_col
    result,           \* "pending", "True", "False": what incremental_update returns
    exit_code,        \* -1 while running, then sys.exit's argument
    calls,            \* the external calls made so far, with how each ended
    table0,           \* history: the sheet when the process started
    written,          \* history: the rows this run wrote to the sheet
    raised,           \* history: an exception reached incremental_update's handler
    reference         \* the provider's reference-rate table, which no call reads

vars == <<config, table, pc, token, existing_data, existing_headers, df,
          prepared_df, new_data_df, feishu_data, range, result, exit_code,
          calls, table0, written, raised, reference>>

ConfigNames == {"APP_ID", "APP_SECRET", "TABLE_TOKEN", "SHEET_ID"}

\* How a request to the store ends: code 0, another code, or an exception.
Outcomes == {"ok", "code", "error"}

NoRange == [start_row |-> 0, end_row |-> 0, end_col |-> 0]

Call(name, outcome) == [name |-> name, outcome |-> outcome]

\* The state when __main__ starts, but for the sheet and the provider.
Start ==
    /\ table0 = table
    /\ pc = "start"
    /\ token = "none"
    /\ existing_data = <<>>
    /\ existing_headers = <<>>
    /\ df = EmptyDF
    /\ prepared_df = EmptyDF
    /\ new_data_df = EmptyDF
    /\ feishu_data = <<>>
    /\ range = NoRange
    /\ result = "pending"
    /\ exit_code = -1
    /\ calls = <<>>
    /\ written = <<>>
    /\ raised = FALSE

\* Spec leaves the reference-rate table out; SpecReference has one.
Init ==
    /\ config \in [ConfigNames -> BOOLEAN]
    /\ table \in InitTables
    /\ reference = EmptyDF
    /\ Start

\* incremental_update returns v.
Return(v) == result' = v /\ pc' = "exit"

\* A check that looks at the credentials only.
ConfigCompleteCredentialsOnly(c) == c["APP_ID"] /\ c["APP_SECRET"]

\* all([APP_ID, APP_SECRET, TABLE_TOKEN, SHEET_ID])
ConfigComplete(c) == \A n \in ConfigNames : c[n]

\* if not all([...]): return False
CheckConfig ==
    /\ pc = "start"
    /\ IF ConfigComplete(config)
       THEN pc' = "token" /\ result' = result
       ELSE Return("False")
    /\ UNCHANGED <<config, reference, table, token, existing_data, existing_headers, df,
                   prepared_df, new_data_df, feishu_data, range, exit_code,
                   calls, table0, written, raised>>

\* get_feishu_token
GetFeishuToken ==
    /\ pc = "token"
    /\ \E o \in Outcomes :
          /\ calls' = Append(calls, Call("auth", o))
          /\ token' = IF o = "ok" THEN "token" ELSE "none"
          /\ IF o = "ok" THEN pc' = "read" /\ result' = result
             ELSE Return("False")
    /\ UNCHANGED <<config, reference, table, existing_data, existing_headers, df,
                   prepared_df, new_data_df, feishu_data, range, exit_code,
                   table0, written, raised>>

\* existing_data, existing_headers = read_existing_feishu_data(token); the run
\* goes on whatever the read gave, unless fatal, when a failed read ends it.
ReadStep(fatal) ==
    /\ pc = "read"
    /\ \E o \in Outcomes :
          LET r == ReadExistingFeishuData(o, table)
          IN  /\ calls' = Append(calls, Call("read", o))
              /\ existing_data' = r.data
              /\ existing_headers' = r.headers
              /\ IF fatal /\ o # "ok" THEN Return("False")
                 ELSE pc' = "fetch" /\ result' = result
    /\ UNCHANGED <<config, reference, table, token, df, prepared_df, new_data_df,
                   feishu_data, range, exit_code, table0, written, raised>>

\* A run that gives up when the read fails.
ReadExistingFatal == ReadStep(TRUE)

ReadExisting == ReadStep(FALSE)

\* df = get_settlement_exchange_rate(); if df is None or df.empty: return on_empty
FetchStep(on_empty) ==
    /\ pc = "fetch"
    /\ \E resp \in ProviderResponses :
          /\ calls' = Append(calls, Call("fetch", resp.kind))
          /\ df' = GetSettlementExchangeRate(resp)
    /\ IF IsEmpty(df') THEN Return(on_empty)
       ELSE pc' = "prepare" /\ result' = result
    /\ UNCHANGED <<config, reference, table, token, existing_data, existing_headers,
                   prepared_df, new_data_df, feishu_data, range, exit_code,
                   table0, written, raised>>

\* A run that takes an empty fetch for "nothing to do".
FetchEmptyIsSuccess == FetchStep("True")

Fetch == FetchStep("False")

\* prepare_new_data, and the check of its result
Prepare ==
    /\ pc = "prepare"
    /\ prepared_df' \in PrepareNewData(df, CurrentTime)
    /\ IF IsEmpty(prepared_df') THEN Return("False")
       ELSE pc' = "identify" /\ result' = result
    /\ UNCHANGED <<config, reference, table, token, existing_data, existing_headers, df,
                   new_data_df, feishu_data, range, exit_code, calls, table0,
                   written, raised>>

\* identify_new_data, and the check of its result
Identify ==
    /\ pc = "identify"
    /\ new_data_df' = IdentifyNewData(prepared_df, existing_data, existing_headers)
    /\ IF IsEmpty(new_data_df') THEN Return("True")
       ELSE pc' = "format" /\ result' = result
    /\ UNCHANGED <<config, reference, table, token, existing_data, existing_headers, df,
                   prepared_df, feishu_data, range, exit_code, calls, table0,
                   written, raised>>

\* prepare_update_data, and the check of its result
Format ==
    /\ pc = "format"
    /\ feishu_data' = PrepareUpdateData(new_data_df, existing_headers, CurrentTime)
    /\ IF feishu_data' = <<>> THEN Return("False")
       ELSE pc' = "append" /\ result' = result
    /\ UNCHANGED <<config, reference, table, token, existing_data, existing_headers, df,
                   prepared_df, new_data_df, range, exit_code, calls, table0,
                   written, raised>>

\* append_to_feishu, up to the answer to its POST; on a code other than 0 it
\* goes on to update_to_feishu if fallback, and gives up if not.
AppendStep(fallback) ==
    /\ pc = "append"
    /\ IF feishu_data = <<>>
       THEN /\ Return("True")
            /\ UNCHANGED <<table, calls, written>>
       ELSE \E o \in Outcomes :
              /\ calls' = Append(calls, Call("append", o))
              /\ CASE o = "ok" ->
                        /\ table' = AppendValues(table, feishu_data)
                        /\ written' = feishu_data
                        /\ Return("True")
                   [] o = "code" /\ fallback ->
                        /\ pc' = "update_read"
                        /\ UNCHANGED <<table, written, result>>
                   [] OTHER ->
                        /\ Return("False")
                        /\ UNCHANGED <<table, written>>
    /\ UNCHANGED <<config, reference, token, existing_data, existing_headers, df,
                   prepared_df, new_data_df, feishu_data, range, exit_code,
                   table0, raised>>

\* An append with no second try.
AppendToFeishuNoFallback == AppendStep(FALSE)

AppendToFeishu == AppendStep(TRUE)

\* update_to_feishu, up to the answer to its GET
UpdateRead ==
    /\ pc = "update_read"
    /\ \E o \in Outcomes :
          /\ calls' = Append(calls, Call("update_read", o))
          /\ IF o = "ok"
             THEN /\ range' = UpdateRange(table, feishu_data)
                  /\ pc' = "update_put"
                  /\ result' = result
             ELSE /\ Return("False")
                  /\ range' = range
    /\ UNCHANGED <<config, reference, table, token, existing_data, existing_headers, df,
                   prepared_df, new_data_df, feishu_data, exit_code, table0,
                   written, raised>>

\* update_to_feishu, its PUT
UpdatePut ==
    /\ pc = "update_put"
    /\ \E o \in Outcomes :
          /\ calls' = Append(calls, Call("update_put", o))
          /\ IF o = "ok"
             THEN /\ table' = PutValues(table, range, feishu_data)
                  /\ written' = feishu_data
                  /\ Return("True")
             ELSE /\ Return("False")
                  /\ UNCHANGED <<table, written>>
    /\ UNCHANGED <<config, reference, token, existing_data, existing_headers, df,
                   prepared_df, new_data_df, feishu_data, range, exit_code,
                   table0, raised>>

\* The steps of incremental_update before the write; each helper catches what
\* its own try block raises, so only what a step does not foresee gets here.
TrySteps == {"token", "read", "fetch", "prepare", "identify", "format", "append"}

\* except Exception as e: ... return False
HandleException ==
    /\ pc \in TrySteps
    /\ raised' = TRUE
    /\ Return("False")
    /\ UNCHANGED <<config, reference, table, token, existing_data, existing_headers, df,
                   prepared_df, new_data_df, feishu_data, range, exit_code,
                   calls, table0, written>>

\* __main__: sys.exit(0) if result else sys.exit(on_failure)
ExitStep(on_failure) ==
    /\ pc = "exit"
    /\ exit_code' = IF result = "True" THEN 0 ELSE on_failure
    /\ pc' = "done"
    /\ UNCHANGED <<config, reference, table, token, existing_data, existing_headers, df,
                   prepared_df, new_data_df, feishu_data, range, result, calls,
                   table0, written, raised>>

\* A process that exits 0 whatever the run returned.
ExitAlwaysZero == ExitStep(0)

Exit == ExitStep(1)

Next ==
    \/ CheckConfig
    \/ GetFeishuToken
    \/ ReadExisting
    \/ Fetch
    \/ Prepare
    \/ Identify
    \/ Format
    \/ AppendToFeishu
    \/ UpdateRead
    \/ UpdatePut
    \/ HandleException
    \/ Exit

Spec == Init /\ [][Next]_vars

\* The provider's reference-rate table: a row or none.
ReferenceTables ==
    {EmptyDF} \cup
    {[cols |-> <<"ShiYongRiQi", "rate">>, rows |-> <<<<a, Cell("float", 1)>>>>] : a \in Dates}

\* Runs with the configuration complete, with a reference-rate table on the
\* provider's side.
InitReference ==
    /\ config = [n \in ConfigNames |-> TRUE]
    /\ table \in {t \in InitTables : Len(t) <= 1}
    /\ reference \in ReferenceTables
    /\ Start

SpecReference == InitReference /\ [][Next]_vars

\* ------------------------------------------------------------- the claims
Finished == pc \in {"exit", "done"}

\* A call of this name was made / ended this way / how many were made.
Made(name) == \E i \in 1..Len(calls) : calls[i].name = name
Ended(name, o) == \E i \in 1..Len(calls) : calls[i] = Call(name, o)
Count(name) == Cardinality({i \in 1..Len(calls) : calls[i].name = name})

Failed(name) == Ended(name, "code") \/ Ended(name, "error")

\* The date of a row of a DataFrame, as text: the value identify_new_data
\* compares.
DateOf(d, row) == Str(row[DateColumn(d.cols)])

\* The first-column texts of the non-empty rows.
FirstColumn(rows) == {Str(rows[k][1]) : k \in {i \in 1..Len(rows) : rows[i] # <<>>}}

\* C1: no row this run wrote has a date (first column, as text) equal to the
\* date of a row that was in the remote table when the run started, whatever
\* the calls' outcomes.
C1_NoDateReappended ==
    \A i \in 1..Len(written) : written[i][1] \notin FirstColumn(table0)

\* The same, for the runs whose read succeeded, for the rows below the first
\* and for the column identify_new_data takes for the date.
C1_NoReadDateReappended ==
    (Ended("read", "ok") /\ DateColumn(prepared_df.cols) = 1) =>
        \A i \in 1..Len(written) : written[i][1] \notin FirstColumn(existing_data)

\* The rows of F whose date is not the first-column text of a row of E.
RowsNotIn(F, E) ==
    SelectSeq(F.rows, LAMBDA row : DateOf(F, row) \notin FirstColumn(E))

FetchedNothing == Made("fetch") /\ IsEmpty(df)

C4_FallbackOnAnyFailure ==
    (pc = "done" /\ Failed("append")) =>
        /\ Count("update_read") = 1
        /\ result = "True" <=> Ended("update_put", "ok")

\* C4, amended: when the append is answered with a code other than 0, the
\* fallback update_to_feishu is tried exactly once with the same rows, the run
\* succeeds if it succeeds and fails if it fails, and no write follows; when
\* the append request itself errors, no fallback is tried and the run fails.
C4_FallbackOnCode ==
    /\ Count("append") <= 1 /\ Count("update_read") <= 1 /\ Count("update_put") <= 1
    /\ Made("update_read") => Ended("append", "code")
    /\ Made("update_put") => Ended("update_read", "ok")
    /\ (Finished /\ Ended("append", "code")) =>
          /\ Count("update_read") = 1
          /\ result = "True" <=> Ended("update_put", "ok")
          /\ Ended("update_put", "ok") => written = feishu_data
          /\ ~Ended("update_put", "ok") => written = <<>> /\ table = table0
    /\ Ended("append", "error") =>
          /\ Finished /\ result = "False"
          /\ ~Made("update_read") /\ ~Made("update_put")
          /\ written = <<>> /\ table = table0

C4_Witness ==
    /\ pc = "done" /\ result = "True"
    /\ Ended("append", "code") /\ Ended("update_put", "ok")

\* The read succeeded and every fetched date is the date of a row it returned.
NoNewData ==
    /\ Ended("read", "ok")
    /\ ~IsEmpty(prepared_df)
    /\ \A i \in 1..Len(prepared_df.rows) :
          DateOf(prepared_df, prepared_df.rows[i]) \in FirstColumn(existing_data)

C6_NoCallWithoutConfig ==
    (\E n \in ConfigNames : ~config[n]) =>
        /\ calls = <<>>
        /\ token = "none"
        /\ table = table0 /\ written = <<>>
        /\ pc \in {"start", "exit", "done"}
        /\ Finished => result = "False"
        /\ pc = "done" => exit_code = 1

C6_Witness ==
    /\ pc = "done" /\ result = "False"
    /\ config["APP_ID"] /\ config["APP_SECRET"] /\ config["TABLE_TOKEN"]
    /\ ~config["SHEET_ID"]

\* C7: a failed store read (a code other than 0, or a request error) does not
\* fail the run: the table counts as empty, the run goes on to the fetch, every
\* fetched row counts as new and is sent to the store, and the result is that
\* of the fetch and write steps.
C7_ReadFailureNotFatal ==
    Failed("read") =>
        /\ existing_data = <<>> /\ existing_headers = <<>>
        /\ (Finished /\ ~raised) => Made("fetch")
        /\ pc \in {"format", "append", "update_read", "update_put"} =>
              new_data_df = prepared_df
        /\ (Made("append") \/ pc = "append") =>
              /\ Len(feishu_data) = Len(df.rows)
              /\ \A i \in 1..Len(df.rows) :
                    \E k \in 1..Len(feishu_data) :
                        /\ feishu_data[k][1] = FormatCell(df.rows[i][1])
                        /\ feishu_data[k][2] = FormatCell(df.rows[i][2])
        /\ (Finished /\ ~raised /\ ~IsEmpty(prepared_df)) =>
              /\ Made("append")
              /\ result = "True" <=> (Ended("append", "ok") \/ Ended("update_put", "ok"))
              /\ result = "True" => written = feishu_data
        /\ (Finished /\ ~raised /\ IsEmpty(prepared_df)) => result = "False"

\* The read failed on a sheet that held rows, and the run wrote and succeeded.
C7_Witness ==
    /\ pc = "done" /\ result = "True"
    /\ Failed("read") /\ Len(table0) >= 2
    /\ Len(written) = Len(df.rows) /\ written # <<>>

\* C8 as stated: each row prepare_update_data puts out has one cell more than
\* the dataset it was given has columns.
C8_OneCellMoreThanInput ==
    pc = "append" =>
        \A i \in 1..Len(feishu_data) : Len(feishu_data[i]) = Len(new_data_df.cols) + 1

\* C8, amended: prepare_update_data puts out as many rows as it was given, each
\* with as many cells as the dataset it was given has columns; that dataset has
\* the timestamp column already (prepare_new_data adds it), so a row has one
\* cell more than the fetched dataset has columns, or as many when the fetched
\* dataset has a timestamp column of its own; every cell is a str, "" for a
\* missing/NaN value.
C8_CellCounts ==
    pc = "append" =>
        /\ Len(feishu_data) = Len(new_data_df.rows)
        /\ \A i \in 1..Len(feishu_data) :
              /\ Len(feishu_data[i]) = Len(new_data_df.cols)
              /\ Len(feishu_data[i]) =
                    Len(df.cols) + (IF UpdateTimeCol \in Range(df.cols) THEN 0 ELSE 1)
              /\ \A j \in 1..Len(feishu_data[i]) :
                    LET value == new_data_df.rows[i][j]
                    IN  /\ IsNa(value) => feishu_data[i][j] = Cell("text_empty", 0)
                        /\ ~IsNa(value) => feishu_data[i][j] = Str(value)
                        /\ feishu_data[i][j].t \notin {"nan", "null", "text_nan", "date", "float"}

\* A dataset with a NaN in it is formatted.
C8_Witness ==
    /\ pc = "append"
    /\ Len(df.cols) = 2 /\ Len(feishu_data[1]) = 3
    /\ \E i \in 1..Len(new_data_df.rows) : IsNa(new_data_df.rows[i][2])

\* The first-column texts of a DataFrame's rows.
DateSet(d) == FirstColumn(d.rows)

Occurrences(rows, r) == Cardinality({i \in 1..Len(rows) : rows[i] = r})

\* C9 as stated: for a settlement dataset A and a reference dataset B with no
\* date in common, the dataset the run reconciles has |A|+|B| rows, no date
\* twice: the reference rows are offered for appending.
C9_MergeOfBoth ==
    (pc = "identify" /\ DateSet(df) \cap DateSet(reference) = {}) =>
        /\ Len(prepared_df.rows) = Len(df.rows) + Len(reference.rows)
        /\ DateSet(reference) \subseteq DateSet(prepared_df)

\* C9, amended: the dataset the run reconciles is the settlement dataset A
\* alone, its |A| rows each with the timestamp; the reference dataset is not
\* fetched, and none of its rows for a date absent from A is offered.
C9_SettlementOnly ==
    /\ Count("fetch") <= 1
    /\ pc = "identify" =>
          /\ Len(prepared_df.rows) = Len(df.rows)
          /\ \A r \in Range(prepared_df.rows) :
                Occurrences(prepared_df.rows, r)
                    = Occurrences(AddUpdateTime(df, CurrentTime).rows, r)
          /\ DateSet(prepared_df) = DateSet(df)
          /\ DateSet(reference) \cap DateSet(df) = {} =>
                DateSet(reference) \cap DateSet(prepared_df) = {}

\* The provider has a reference row for a date the settlement data lack.
C9_Witness ==
    /\ pc = "identify"
    /\ reference.rows # <<>>
    /\ DateSet(df) \cap DateSet(reference) = {}
    /\ Len(df.rows) = 2

EmptySheetRangeFromRowTwo ==
    /\ (pc = "update_put" /\ table = <<>>) =>
          range.start_row = 2 /\ range.end_row = 1 + Len(feishu_data)
    /\ (Ended("update_put", "ok") /\ table0 = <<>>) =>
          table = <<BlankRow>> \o feishu_data

=============================================================================
